---- MODULE Spec2Model ----
(***************************************************************************)
(* Property data resolution of PropPulse AI.                               *)
(*                                                                         *)
(* ExternalAPIService.get_property_data (backend/services/external_apis.py)*)
(* asks the property data providers for a record, falls back to the        *)
(* address-analysis estimates of _get_basic_property_estimates and, when   *)
(* that gives nothing either, to a minimal "Unknown" structure.  The       *)
(* quick-analysis endpoint of main.py calls it and forces an estimate when *)
(* the data it got back is not meaningful.                                 *)
(*                                                                         *)
(* Python values: a str is a TLA+ string, None is the empty tuple, and a   *)
(* value that is either None or an int n is None or the 1-tuple <<n>>.     *)
(***************************************************************************)
EXTENDS Integers, Sequences, FiniteSets, TLC

None == <<>>
Some(n) == <<n>>

(***************************************************************************)
(* Strings: str.lower(), the `in` substring test, and the regular          *)
(* expression  unit\s*(\d+)|apt\s*(\d+)|#\s*(\d+)  as re.search runs it.   *)
(***************************************************************************)
UpperCase == "ABCDEFGHIJKLMNOPQRSTUVWXYZ"
LowerCase == "abcdefghijklmnopqrstuvwxyz"
Digits == "0123456789"

CharAt(s, i) == SubSeq(s, i, i)

LowerChar(c) ==
    IF \E k \in 1..Len(UpperCase) : CharAt(UpperCase, k) = c
    THEN CharAt(LowerCase, CHOOSE k \in 1..Len(UpperCase) : CharAt(UpperCase, k) = c)
    ELSE c

RECURSIVE lower(_)
lower(s) ==
    IF Len(s) = 0 THEN ""
    ELSE LowerChar(CharAt(s, 1)) \o lower(SubSeq(s, 2, Len(s)))

\* Python: p in s
Contains(s, p) ==
    \E i \in 1..(Len(s) - Len(p) + 1) : SubSeq(s, i, i + Len(p) - 1) = p

IsDigit(c) == \E k \in 1..Len(Digits) : CharAt(Digits, k) = c
IsSpace(c) == c \in {" ", "\t", "\n", "\r"}

DigitValue(c) == (CHOOSE k \in 1..Len(Digits) : CharAt(Digits, k) = c) - 1

\* Python: int(g) for a string of decimal digits
RECURSIVE int(_)
int(g) ==
    IF Len(g) = 0 THEN 0
    ELSE 10 * int(SubSeq(g, 1, Len(g) - 1)) + DigitValue(CharAt(g, Len(g)))

\* \s* is greedy: the first position at or after i that holds no white space
RECURSIVE SkipSpaces(_, _)
SkipSpaces(s, i) ==
    IF i <= Len(s) /\ IsSpace(CharAt(s, i)) THEN SkipSpaces(s, i + 1) ELSE i

\* \d+ is greedy: the position after the run of digits that starts at i
RECURSIVE DigitsEnd(_, _)
DigitsEnd(s, i) ==
    IF i <= Len(s) /\ IsDigit(CharAt(s, i)) THEN DigitsEnd(s, i + 1) ELSE i

StartsWithAt(s, i, kw) ==
    i + Len(kw) - 1 <= Len(s) /\ SubSeq(s, i, i + Len(kw) - 1) = kw

\* One alternative  kw\s*(\d+)  tried at position i: the digits it captures,
\* or None when it does not match there.
MatchAt(s, i, kw) ==
    IF ~StartsWithAt(s, i, kw) THEN None
    ELSE LET j == SkipSpaces(s, i + Len(kw))
             e == DigitsEnd(s, j)
         IN  IF e > j THEN Some(SubSeq(s, j, e - 1)) ELSE None

UnitKeywords == <<"unit", "apt", "#">>

\* The groups of the match at position i (one per alternative, None for an
\* alternative that did not take part), or None when nothing matches at i.
\* The alternatives are tried in order and the first that matches wins.
GroupsAt(s, i) ==
    LET hits == {k \in 1..Len(UnitKeywords) : MatchAt(s, i, UnitKeywords[k]) # None}
    IN  IF hits = {} THEN None
        ELSE LET first == CHOOSE k \in hits : \A m \in hits : k <= m
             IN  [k \in 1..Len(UnitKeywords) |->
                     IF k = first THEN MatchAt(s, i, UnitKeywords[k]) ELSE None]

\* re.search: the match at the leftmost position that has one, or None
re_search(s) ==
    LET at == {i \in 1..Len(s) : GroupsAt(s, i) # None}
    IN  IF at = {} THEN None
        ELSE GroupsAt(s, CHOOSE i \in at : \A j \in at : i <= j)

Max(S) == CHOOSE x \in S : \A y \in S : y <= x
min(a, b) == IF a <= b THEN a ELSE b
max(a, b) == IF a >= b THEN a ELSE b

\* JavaScript: s.trim()
RECURSIVE trimStart(_)
trimStart(s) ==
    IF Len(s) > 0 /\ IsSpace(CharAt(s, 1)) THEN trimStart(SubSeq(s, 2, Len(s)))
    ELSE s

RECURSIVE trimEnd(_)
trimEnd(s) ==
    IF Len(s) > 0 /\ IsSpace(CharAt(s, Len(s))) THEN trimEnd(SubSeq(s, 1, Len(s) - 1))
    ELSE s

trim(s) == trimEnd(trimStart(s))

\* JavaScript: encodeURIComponent(s), for letters, digits, spaces and commas
RECURSIVE encodeURIComponent(_)
encodeURIComponent(s) ==
    IF Len(s) = 0 THEN ""
    ELSE LET c == CharAt(s, 1)
             escaped == IF c = " " THEN "%20"
                        ELSE IF c = "," THEN "%2C"
                        ELSE IF c = "%" THEN "%25"
                        ELSE c
         IN  escaped \o encodeURIComponent(SubSeq(s, 2, Len(s)))

\* URLSearchParams: the value of a parameter, its escapes and its + decoded
RECURSIVE decodeParam(_)
decodeParam(s) ==
    IF Len(s) = 0 THEN ""
    ELSE IF StartsWithAt(s, 1, "%20") THEN " " \o decodeParam(SubSeq(s, 4, Len(s)))
    ELSE IF StartsWithAt(s, 1, "%2C") THEN "," \o decodeParam(SubSeq(s, 4, Len(s)))
    ELSE IF StartsWithAt(s, 1, "%25") THEN "%" \o decodeParam(SubSeq(s, 4, Len(s)))
    ELSE IF CharAt(s, 1) = "+" THEN " " \o decodeParam(SubSeq(s, 2, Len(s)))
    ELSE CharAt(s, 1) \o decodeParam(SubSeq(s, 2, Len(s)))

(***************************************************************************)
(* _get_basic_property_estimates: estimates from the words of the address. *)
(***************************************************************************)
multifamily_indicators ==
    <<"apt", "apartment", "unit", "suite", "#", "complex", "towers", "plaza",
      "manor", "court", "place">>

is_likely_multifamily(address_lower) ==
    \E k \in 1..Len(multifamily_indicators) :
        Contains(address_lower, multifamily_indicators[k])

is_commercial(address_lower) ==
    \/ Contains(address_lower, "commercial")
    \/ Contains(address_lower, "business")
    \/ Contains(address_lower, "office")
    \/ Contains(address_lower, "plaza")

\* [int(g) for g in unit_match.groups() if g and g.isdigit()]
unit_numbers(unit_match) ==
    {int(unit_match[k][1]) : k \in {m \in DOMAIN unit_match : unit_match[m] # None}}

\* a unit estimate with no upper limit
estimated_units_of_NoCap(unit_match) ==
    IF unit_match # None
    THEN IF unit_numbers(unit_match) # {}
         THEN max(Max(unit_numbers(unit_match)) + 10, 20)
         ELSE 48
    ELSE 48

estimated_units_of(unit_match) ==
    IF unit_match # None
    THEN IF unit_numbers(unit_match) # {}
         THEN min(max(Max(unit_numbers(unit_match)) + 10, 20), 100)
         ELSE 48
    ELSE 48

\* The dictionary the method returns for a type and its three estimates
EstimateRecord(address, property_type, estimated_units, estimated_sqft, estimated_value) ==
    [address |-> address,
     property_type |-> property_type,
     units |-> Some(estimated_units),
     square_footage |-> Some(estimated_sqft),
     estimated_value |-> estimated_value,
     price_per_unit |-> estimated_value \div max(estimated_units, 1),
     avg_rent_per_unit |-> estimated_units * 18,
     is_estimated_data |-> TRUE,
     confidence |-> 25,
     sources |-> <<"Address Analysis">>]

\* a multifamily estimate whose value is taken per square foot
MultifamilyEstimate_ValuePerSqft(address, unit_match) ==
    LET estimated_units == estimated_units_of(unit_match)
        estimated_sqft == estimated_units * 850
    IN  EstimateRecord(address, "Multifamily", estimated_units, estimated_sqft,
                       estimated_sqft * 250)

MultifamilyEstimate(address, unit_match) ==
    LET estimated_units == estimated_units_of(unit_match)
        estimated_sqft == estimated_units * 850
        estimated_value == estimated_units * 55000
    IN  EstimateRecord(address, "Multifamily", estimated_units, estimated_sqft,
                       estimated_value)

\* a commercial estimate that counts no residential unit
CommercialEstimate_NoUnits(address) ==
    EstimateRecord(address, "Commercial", 0, 5000, 5000 * 250)

CommercialEstimate(address) ==
    LET estimated_sqft == 5000
    IN  EstimateRecord(address, "Commercial", 1, estimated_sqft, estimated_sqft * 250)

\* a single family estimate with the commercial floor area
SingleFamilyEstimate_CommercialSqft(address) ==
    EstimateRecord(address, "Single Family", 1, 5000, 450000)

SingleFamilyEstimate(address) ==
    EstimateRecord(address, "Single Family", 1, 2000, 450000)

\* the estimator with the commercial test ahead of the multifamily one
get_basic_property_estimates_CommercialFirst(address, force_estimation) ==
    LET address_lower == lower(address)
        unit_match == re_search(address_lower)
        has_unit_number == unit_match # None
    IN  IF is_commercial(address_lower)
        THEN CommercialEstimate(address)
        ELSE IF is_likely_multifamily(address_lower) \/ has_unit_number
        THEN MultifamilyEstimate(address, unit_match)
        ELSE IF force_estimation
        THEN SingleFamilyEstimate(address)
        ELSE None

\* the estimator that estimates a commercial address only when forced to
get_basic_property_estimates_MultifamilyOnly(address, force_estimation) ==
    LET address_lower == lower(address)
        unit_match == re_search(address_lower)
        has_unit_number == unit_match # None
    IN  IF is_likely_multifamily(address_lower) \/ has_unit_number
        THEN MultifamilyEstimate(address, unit_match)
        ELSE IF force_estimation
        THEN IF is_commercial(address_lower)
             THEN CommercialEstimate(address)
             ELSE SingleFamilyEstimate(address)
        ELSE None

get_basic_property_estimates(address, force_estimation) ==
    LET address_lower == lower(address)
        unit_match == re_search(address_lower)
        has_unit_number == unit_match # None
    IN  IF is_likely_multifamily(address_lower) \/ has_unit_number
        THEN MultifamilyEstimate(address, unit_match)
        ELSE IF is_commercial(address_lower) \/ force_estimation
        THEN IF is_commercial(address_lower)
             THEN CommercialEstimate(address)
             ELSE SingleFamilyEstimate(address)
        ELSE None

(***************************************************************************)
(* The property data providers.  get_free_property_data lives in           *)
(* services/free_property_apis.py; it asks the ATTOM records API first and *)
(* the free public sources (OpenStreetMap, Census, HUD) second.            *)
(***************************************************************************)
\* A verified record of the authoritative records provider
AttomRecord(address) ==
    [address |-> address,
     property_type |-> "Single Family",
     units |-> Some(1),
     square_footage |-> Some(2000),
     estimated_value |-> 480000,
     data_sources |-> <<"ATTOM Property API">>]

\* A record of the public aggregate provider: the sources give a value and
\* no unit count or floor area
PublicRecord(address) ==
    [address |-> address,
     property_type |-> "Commercial",
     units |-> None,
     square_footage |-> None,
     estimated_value |-> 195000]

\* The public aggregate provider verified the address and knows nothing else
PublicUnknownRecord(address) ==
    [address |-> address,
     property_type |-> "Unknown",
     units |-> None,
     square_footage |-> None,
     estimated_value |-> 0,
     data_sources |-> <<"OpenStreetMap (Free)">>]

AuthoritativeAnswers(address) == {None, AttomRecord(address)}
PublicAnswers(address) ==
    {None, PublicRecord(address), PublicUnknownRecord(address)}

\* The providers in priority order: the public provider is asked only when
\* the authoritative one has no record, and the first record is returned whole.
get_free_property_data(authoritative, public) ==
    IF authoritative # None
    THEN [tried |-> <<"authoritative">>, data |-> authoritative]
    ELSE [tried |-> <<"authoritative", "public">>, data |-> public]

(***************************************************************************)
(* The addresses of the model: every concatenation of at most MaxPieces    *)
(* pieces, the addresses of the repository's test scripts, and two longer  *)
(* ones with a unit number.                                                *)
(***************************************************************************)
MaxPieces == 2

Pieces ==
    {"Apt", "unit", "#", " ", "4", "35", "95", "Plaza", "Office", "Main St"}

RECURSIVE Concatenations(_)
Concatenations(n) ==
    IF n = 0 THEN {""}
    ELSE LET shorter == Concatenations(n - 1)
         IN  shorter \cup {a \o p : a \in shorter, p \in Pieces}

TestAddresses ==
    {"123 Main St, Anytown USA",
     "123 Office Plaza, Business District",
     "Wilshire Apartment Complex, Los Angeles, CA",
     "1234 Commerce St, Austin, TX 78701",
     "Apt 4B, Plaza Towers",
     "12 Oak Court unit 35"}

\* the address of the frontend's test script without its district and county
\* parts, and addresses with an indicator inside a longer word and with two
\* unit numbers
UnitedStatesAddress ==
    "5678, Wilshire Boulevard, Los Angeles, California, 90036, United States"

WordAddresses ==
    {UnitedStatesAddress, "12 Main St, Placerville, CA", "Bldg 2 Unit 12, Apt 95"}

Addresses == Concatenations(MaxPieces) \cup TestAddresses \cup WordAddresses

(***************************************************************************)
(* One request at a time through get_property_data and the quick-analysis  *)
(* endpoint.                                                               *)
(***************************************************************************)
VARIABLES
    pc,                    \* where the request is
    address,               \* the address of the request
    authoritative_answer,  \* what the authoritative provider has for it
    public_answer,         \* what the public aggregate provider has for it
    provider_raises,       \* the call of get_free_property_data raises
    calls,                 \* the waterfall steps invoked so far, in order
    property_data,         \* get_property_data: what the providers returned
    basic_estimates,       \* get_property_data: what the estimator returned
    result,                \* what get_property_data returned
    yielded_by,            \* the step whose record get_property_data returned
    raised,                \* an exception left get_property_data
    estimated_data,        \* quick-analysis: the forced estimate
    response               \* quick-analysis: the property data it answers with

\* what the resolver and the endpoint work on
service_vars ==
    <<pc, address, authoritative_answer, public_answer, provider_raises, calls,
      property_data, basic_estimates, result, yielded_by, raised, estimated_data,
      response>>

VARIABLES
    previous               \* the request before this one and what it was answered

\* The pages of the frontend: the dashboard's quick analysis, the new deal
\* form and the documents page
VARIABLES
    page,                  \* the page the browser shows
    quickAddress,          \* dashboard: the address typed for the quick analysis
    showQuickResults,      \* dashboard: the quick analysis result is shown
    error,                 \* dashboard: the error of the quick analysis
    propertyAddress,       \* new deal form: the address typed
    documentsAddress,      \* documents page: its address state
    t12File,               \* documents page: the T12 file selected
    rentRollFile,          \* documents page: the rent roll file selected
    loading,               \* documents page: the upload and analysis is running
    uploadProgress,        \* documents page: the progress shown
    currentStep,           \* documents page: the step label shown
    awaiting,              \* documents page: the fetch handleContinueToAnalysis awaits
    uploadId,              \* documents page: the upload id the backend answered
    alerted,               \* the last alert shown
    requests               \* the requests the backend has received

browser_vars ==
    <<page, quickAddress, showQuickResults, error, propertyAddress,
      documentsAddress, t12File, rentRollFile, loading, uploadProgress,
      currentStep, awaiting, uploadId, alerted, requests>>

\* The Buy-Box Evaluator behind the two entry points of the pipeline
VARIABLES
    entryPoint,            \* the entry point of the analysis: quick or full
    computedMetrics,       \* the metrics computed from the financial inputs
    propertyRecord,        \* the price and the units of the property
    investmentCriteria,    \* the criteria the deal is evaluated against
    analysisResult         \* the result of the analysis

evaluator_vars ==
    <<entryPoint, computedMetrics, propertyRecord, investmentCriteria, analysisResult>>

\* The settings page and the two places the criteria are persisted in
VARIABLES
    settingsPage,          \* closed, loading (the criteria are fetched) or ready
    criteria,              \* the criteria state of the form
    saving,                \* handleSave is running
    savingCriteria,        \* the criteria handleSave was called with
    storedCriteria,        \* the criteria the backend stores for the user
    localStorageItem       \* localStorage: the item investmentCriteria

settings_vars ==
    <<settingsPage, criteria, saving, savingCriteria, storedCriteria, localStorageItem>>

\* The AuthProvider, what Supabase and localStorage hold for it, and the email
\* confirmation page
VARIABLES
    user,                  \* AuthProvider: the user state
    authLoading,           \* AuthProvider: the loading state
    demo_user,             \* localStorage: the demo_user item of an OTP login
    session,               \* Supabase: the session it holds
    initAuthAt,            \* where initAuth is: start, getSession or done
    refreshAuthAt,         \* where refreshAuth is: idle or getSession
    signOutAt,             \* where signOut is: idle, signOut, returned or thrown
    status,                \* confirmation page: loading, success or error
    message,               \* confirmation page: the message shown
    confirmEmailAt         \* where confirmEmail is: closed, verifyOtp, done or redirect

auth_vars ==
    <<user, authLoading, demo_user, session, initAuthAt, refreshAuthAt, signOutAt,
      status, message, confirmEmailAt>>

\* The comparison page
VARIABLES
    comparisonLoading,     \* the analyses are being fetched
    properties,            \* the ids of the analysed properties that are listed
    selectedProperties,    \* the ids selected for the comparison, in order
    propertyId             \* the argument of the last handlePropertySelect

comparison_vars ==
    <<comparisonLoading, properties, selectedProperties, propertyId>>

\* the pages and their state, and the evaluator
pages == <<browser_vars, evaluator_vars, settings_vars, auth_vars, comparison_vars>>

\* what a step of the resolver or of the endpoint leaves alone
elsewhere == <<previous, pages>>

vars == <<service_vars, elsewhere>>

\* Python: d.get(key, default)
DictGet(d, key, default) == IF key \in DOMAIN d THEN d[key] ELSE default

\* a minimal structure that claims a square footage of 0
MinimalRecord_ZeroSquareFootage(addr) ==
    [address |-> addr,
     property_type |-> "Unknown",
     units |-> Some(0),
     square_footage |-> Some(0),
     estimated_value |-> 0,
     is_estimated_data |-> FALSE,
     is_free_data |-> FALSE,
     confidence |-> 0,
     sources |-> <<>>]

\* The minimal structure with Unknown values
MinimalRecord(addr) ==
    [address |-> addr,
     property_type |-> "Unknown",
     units |-> Some(0),
     square_footage |-> None,
     estimated_value |-> 0,
     is_estimated_data |-> FALSE,
     is_free_data |-> FALSE,
     confidence |-> 0,
     sources |-> <<>>]

\* property_data and property_data.get("property_type") != "Unknown"
IsUseful(data) ==
    data # None /\ DictGet(data, "property_type", None) # "Unknown"

\* the data quality with a confidence below the providers' band
WithDataQuality_LowConfidence(data) ==
    [is_estimated_data |-> FALSE,
     is_free_data |-> TRUE,
     confidence |-> 50,
     sources |-> DictGet(data, "data_sources", <<"Free Property Data API">>)]
    @@ data

\* property_data["data_quality"] = {...}
WithDataQuality(data) ==
    [is_estimated_data |-> FALSE,
     is_free_data |-> TRUE,
     confidence |-> 80,
     sources |-> DictGet(data, "data_sources", <<"Free Property Data API">>)]
    @@ data

\* The addresses typed into a form or put into a URL
FormAddresses == {"", "  ", "12 Main St", "1234 Commerce St, Austin, TX 78701"}

\* the keys of mockPropertyData that the forms are given
MockAddresses == {"1234 Commerce St, Austin, TX 78701"}

\* the files a user selects
T12Files == {"t12.pdf"}
RentRollFiles == {"rent_roll.xlsx"}

\* The browser opens the dashboard; every page state has its useState default
BrowserInit ==
    /\ page = "dashboard"
    /\ quickAddress = ""
    /\ showQuickResults = FALSE
    /\ error = None
    /\ propertyAddress = ""
    /\ documentsAddress = ""
    /\ t12File = None
    /\ rentRollFile = None
    /\ loading = FALSE
    /\ uploadProgress = 0
    /\ currentStep = ""
    /\ awaiting = "nothing"
    /\ uploadId = None
    /\ alerted = None
    /\ requests = {}

\* No analysis has been asked for
EvaluatorInit ==
    /\ entryPoint = "none"
    /\ computedMetrics = None
    /\ propertyRecord = None
    /\ investmentCriteria = None
    /\ analysisResult = None

\* The criteria a user starts with: the percentages in tenths of a percent,
\* the coverage ratio in hundredths
defaultCriteria ==
    [minCashOnCash |-> 80, minCapRate |-> 60, minIRR |-> 120, minDSCR |-> 120,
     maxPrice |-> 5000000, minPrice |-> 500000, minUnits |-> 20, maxUnits |-> 100]

\* The settings page is closed and nothing has been saved
SettingsInit ==
    /\ settingsPage = "closed"
    /\ criteria = defaultCriteria
    /\ saving = FALSE
    /\ savingCriteria = None
    /\ storedCriteria = None
    /\ localStorageItem = None

\* The AuthProvider is mounted with its useState defaults and initAuth is to
\* run; it is the first visit, localStorage and Supabase hold nothing; the
\* confirmation page is not open
Sessions == {None, Some([email_confirmed_at |-> TRUE]), Some([email_confirmed_at |-> FALSE])}

AuthInit ==
    /\ user = None
    /\ authLoading = TRUE
    /\ demo_user = None
    /\ session = None
    /\ initAuthAt = "start"
    /\ refreshAuthAt = "idle"
    /\ signOutAt = "idle"
    /\ status = "loading"
    /\ message = ""
    /\ confirmEmailAt = "closed"

\* The comparison page is mounted and fetches the analyses
ComparisonInit ==
    /\ comparisonLoading = TRUE
    /\ properties = <<>>
    /\ selectedProperties = <<>>
    /\ propertyId = None

Init ==
    /\ pc = "idle"
    /\ address = ""
    /\ authoritative_answer = None
    /\ public_answer = None
    /\ provider_raises = FALSE
    /\ calls = <<>>
    /\ property_data = None
    /\ basic_estimates = None
    /\ result = None
    /\ yielded_by = "nothing"
    /\ raised = FALSE
    /\ estimated_data = None
    /\ response = None
    /\ previous = None
    /\ BrowserInit
    /\ EvaluatorInit
    /\ SettingsInit
    /\ AuthInit
    /\ ComparisonInit

\* A request arrives: its address and what the providers will do with it
Request ==
    /\ UNCHANGED elsewhere
    /\ pc = "idle"
    /\ \E a \in Addresses :
         /\ address' = a
         /\ authoritative_answer' \in AuthoritativeAnswers(a)
         /\ public_answer' \in PublicAnswers(a)
    /\ provider_raises' \in BOOLEAN
    /\ pc' = "call_provider"
    /\ UNCHANGED <<calls, property_data, basic_estimates, result, yielded_by,
                   raised, estimated_data, response>>

\* property_data = await get_free_property_data(address)
CallProvider ==
    /\ UNCHANGED elsewhere
    /\ pc = "call_provider"
    /\ LET got == get_free_property_data(authoritative_answer, public_answer)
       IN  /\ calls' = got.tried
           /\ IF provider_raises
              THEN /\ pc' = "except"
                   /\ UNCHANGED property_data
              ELSE /\ pc' = "check"
                   /\ property_data' = got.data
    /\ UNCHANGED <<address, authoritative_answer, public_answer, provider_raises,
                   basic_estimates, result, yielded_by, raised, estimated_data,
                   response>>

\* the provider's record with its missing quantities filled in by the estimator
ReturnProviderData_Backfilled ==
    /\ UNCHANGED elsewhere
    /\ pc = "check"
    /\ IsUseful(property_data)
    /\ LET estimate == get_basic_property_estimates(address, TRUE)
           filled == [f \in {"units", "square_footage"} |->
                         IF property_data[f] = None THEN estimate[f]
                         ELSE property_data[f]]
       IN  result' = WithDataQuality(filled @@ property_data)
    /\ yielded_by' = "provider"
    /\ pc' = "done"
    /\ UNCHANGED <<address, authoritative_answer, public_answer, provider_raises,
                   calls, property_data, basic_estimates, raised, estimated_data,
                   response>>

\* useful data from the providers is returned with its data quality
ReturnProviderData ==
    /\ UNCHANGED elsewhere
    /\ pc = "check"
    /\ IsUseful(property_data)
    /\ result' = WithDataQuality(property_data)
    /\ yielded_by' = "provider"
    /\ pc' = "done"
    /\ UNCHANGED <<address, authoritative_answer, public_answer, provider_raises,
                   calls, property_data, basic_estimates, raised, estimated_data,
                   response>>

\* the basic estimates asked for with force_estimation=True
TryBasicEstimates_Forced ==
    /\ UNCHANGED elsewhere
    /\ pc = "check"
    /\ ~IsUseful(property_data)
    /\ calls' = Append(calls, "estimator")
    /\ basic_estimates' = get_basic_property_estimates(address, TRUE)
    /\ IF basic_estimates' # None
       THEN /\ result' = basic_estimates'
            /\ yielded_by' = "estimator"
            /\ pc' = "done"
       ELSE /\ pc' = "minimal"
            /\ UNCHANGED <<result, yielded_by>>
    /\ UNCHANGED <<address, authoritative_answer, public_answer, provider_raises,
                   property_data, raised, estimated_data, response>>

\* the basic estimates with the forcing left to chance
TryBasicEstimates_Random ==
    /\ UNCHANGED elsewhere
    /\ pc = "check"
    /\ ~IsUseful(property_data)
    /\ calls' = Append(calls, "estimator")
    /\ \E force_estimation \in BOOLEAN :
          basic_estimates' = get_basic_property_estimates(address, force_estimation)
    /\ IF basic_estimates' # None
       THEN /\ result' = basic_estimates'
            /\ yielded_by' = "estimator"
            /\ pc' = "done"
       ELSE /\ pc' = "minimal"
            /\ UNCHANGED <<result, yielded_by>>
    /\ UNCHANGED <<address, authoritative_answer, public_answer, provider_raises,
                   property_data, raised, estimated_data, response>>

\* otherwise the basic estimates are tried, and returned when there are any
TryBasicEstimates ==
    /\ UNCHANGED elsewhere
    /\ pc = "check"
    /\ ~IsUseful(property_data)
    /\ calls' = Append(calls, "estimator")
    /\ basic_estimates' = get_basic_property_estimates(address, FALSE)
    /\ IF basic_estimates' # None
       THEN /\ result' = basic_estimates'
            /\ yielded_by' = "estimator"
            /\ pc' = "done"
       ELSE /\ pc' = "minimal"
            /\ UNCHANGED <<result, yielded_by>>
    /\ UNCHANGED <<address, authoritative_answer, public_answer, provider_raises,
                   property_data, raised, estimated_data, response>>

\* if all else fails, the minimal structure
ReturnMinimal ==
    /\ UNCHANGED elsewhere
    /\ pc = "minimal"
    /\ result' = MinimalRecord(address)
    /\ yielded_by' = "nothing"
    /\ pc' = "done"
    /\ UNCHANGED <<address, authoritative_answer, public_answer, provider_raises,
                   calls, property_data, basic_estimates, raised, estimated_data,
                   response>>

\* an except clause that logs and raises again
HandleError_Reraise ==
    /\ UNCHANGED elsewhere
    /\ pc = "except"
    /\ raised' = TRUE
    /\ pc' = "done"
    /\ UNCHANGED <<address, authoritative_answer, public_answer, provider_raises,
                   calls, property_data, basic_estimates, result, yielded_by,
                   estimated_data, response>>

\* except Exception: the minimal structure again
HandleError ==
    /\ UNCHANGED elsewhere
    /\ pc = "except"
    /\ result' = MinimalRecord(address)
    /\ yielded_by' = "nothing"
    /\ raised' = FALSE
    /\ pc' = "done"
    /\ UNCHANGED <<address, authoritative_answer, public_answer, provider_raises,
                   calls, property_data, basic_estimates, estimated_data, response>>

\* quick-analysis: has_meaningful_data, and the forced estimate when it is not
has_meaningful_data(data) ==
    \/ DictGet(data, "property_type", None) # "Unknown"
    \/ DictGet(data, "units", Some(0))[1] > 0

QuickAnalysis ==
    /\ UNCHANGED elsewhere
    /\ pc = "done"
    /\ IF ~has_meaningful_data(result)
       THEN /\ estimated_data' = get_basic_property_estimates(address, TRUE)
            /\ response' = IF estimated_data' # None THEN estimated_data' ELSE result
       ELSE /\ response' = result
            /\ UNCHANGED estimated_data
    /\ pc' = "responded"
    /\ UNCHANGED <<address, authoritative_answer, public_answer, provider_raises,
                   calls, property_data, basic_estimates, result, yielded_by, raised>>

\* the request is over; the service keeps nothing of it
NextRequest ==
    /\ UNCHANGED elsewhere
    /\ pc = "responded"
    /\ pc' = "idle"
    /\ address' = ""
    /\ authoritative_answer' = None
    /\ public_answer' = None
    /\ provider_raises' = FALSE
    /\ calls' = <<>>
    /\ property_data' = None
    /\ basic_estimates' = None
    /\ result' = None
    /\ yielded_by' = "nothing"
    /\ raised' = FALSE
    /\ estimated_data' = None
    /\ response' = None

Next ==
    \/ Request
    \/ CallProvider
    \/ ReturnProviderData
    \/ TryBasicEstimates
    \/ ReturnMinimal
    \/ HandleError
    \/ QuickAnalysis
    \/ NextRequest

Spec == Init /\ [][Next]_vars

(***************************************************************************)
(* The test script: it sends the endpoint its addresses one after the      *)
(* other, and is run again and again against the same service object.      *)
(***************************************************************************)
\* what a request is made of: the address and what the providers do with it
Inputs == <<address, authoritative_answer, public_answer, provider_raises>>

\* test_address(address) for an address of the script
TestRequest ==
    /\ UNCHANGED pages
    /\ pc = "idle"
    /\ \E a \in TestAddresses :
         /\ address' = a
         /\ authoritative_answer' \in AuthoritativeAnswers(a)
         /\ public_answer' \in PublicAnswers(a)
    /\ provider_raises' \in BOOLEAN
    /\ pc' = "call_provider"
    /\ UNCHANGED <<calls, property_data, basic_estimates, result, yielded_by,
                   raised, estimated_data, response, previous>>

\* the script has its answer and goes on to its next address; the service
\* object stays, with nothing of the request in it
NextTestRequest ==
    /\ UNCHANGED pages
    /\ pc = "responded"
    /\ previous' = [inputs |-> Inputs, result |-> result, response |-> response]
    /\ pc' = "idle"
    /\ address' = ""
    /\ authoritative_answer' = None
    /\ public_answer' = None
    /\ provider_raises' = FALSE
    /\ calls' = <<>>
    /\ property_data' = None
    /\ basic_estimates' = None
    /\ result' = None
    /\ yielded_by' = "nothing"
    /\ raised' = FALSE
    /\ estimated_data' = None
    /\ response' = None

NextTestScript ==
    \/ TestRequest
    \/ CallProvider
    \/ ReturnProviderData
    \/ TryBasicEstimates
    \/ ReturnMinimal
    \/ HandleError
    \/ QuickAnalysis
    \/ NextTestRequest

SpecTestScript == Init /\ [][NextTestScript]_vars

(***************************************************************************)
(* The frontend: the quick analysis of the dashboard, the new deal form    *)
(* and the documents page with its upload and analysis.                    *)
(***************************************************************************)
\* what a step of these pages leaves alone
beside_browser ==
    <<service_vars, previous, evaluator_vars, settings_vars, auth_vars, comparison_vars>>

\* a request as the backend receives it; what a request does not carry is
\* None, what it carries is Some of it
BackendRequest(endpoint, body_address, upload_id, investment_criteria) ==
    [endpoint |-> endpoint, address |-> body_address, upload_id |-> upload_id,
     investment_criteria |-> investment_criteria]

\* the criteria handleContinueToAnalysis sends: the percentages in tenths of a
\* percent, the coverage ratio in hundredths
SentCriteria == [minCapRate |-> 60, minCashOnCash |-> 80, minDSCR |-> 120]

\* fetchRealPropertyData(address): the requests it adds; none for a mock
\* address in a development build
fetchRealPropertyData(propertyAddress_, development) ==
    IF propertyAddress_ \in MockAddresses /\ development
    THEN {}
    ELSE {BackendRequest("/quick-analysis", Some(propertyAddress_), None, None)}

\* encodeURIComponent on the addresses of the forms
encoded == [a \in FormAddresses |-> encodeURIComponent(a)]

\* the address parameter of a URL of the documents page: none, or an
\* encoded address
AddressParams == {None} \cup {Some(encoded[a]) : a \in FormAddresses}

\* searchParams.get("address") for each of them
searchParamsGet ==
    [addressParam \in AddressParams |->
        IF addressParam = None THEN None ELSE Some(decodeParam(addressParam[1]))]

\* A page is mounted with its useState defaults, the pages left are gone;
\* the documents page takes its address from the URL and fetches its data
Show(target, addressParam) ==
    LET addressFromUrl == searchParamsGet[addressParam]
        fromUrl == /\ target = "documents"
                   /\ addressFromUrl # None
                   /\ addressFromUrl # Some("")
        address_ == IF fromUrl THEN addressFromUrl[1] ELSE ""
    IN  /\ page' = target
        /\ quickAddress' = ""
        /\ showQuickResults' = FALSE
        /\ error' = None
        /\ propertyAddress' = ""
        /\ documentsAddress' = address_
        /\ t12File' = None
        /\ rentRollFile' = None
        /\ loading' = FALSE
        /\ uploadProgress' = 0
        /\ currentStep' = ""
        /\ awaiting' = "nothing"
        /\ uploadId' = None
        /\ IF target = "documents" /\ address_ # "" /\ trim(address_) # ""
           THEN \E development \in BOOLEAN :
                    requests' = requests \cup fetchRealPropertyData(address_, development)
           ELSE UNCHANGED requests

\* the user opens a page by its URL, the documents page with or without an
\* address parameter
OpenUrl ==
    /\ awaiting = "nothing"
    /\ \E target \in {"dashboard", "upload", "documents"} :
       \E addressParam \in AddressParams :
           /\ (target # "documents") => addressParam = None
           /\ Show(target, addressParam)
    /\ UNCHANGED alerted
    /\ UNCHANGED beside_browser

\* dashboard: the address input
setQuickAddress ==
    /\ page = "dashboard"
    /\ quickAddress' \in FormAddresses
    /\ UNCHANGED <<page, showQuickResults, error, propertyAddress, documentsAddress,
                   t12File, rentRollFile, loading, uploadProgress, currentStep,
                   awaiting, uploadId, alerted, requests>>
    /\ UNCHANGED beside_browser

\* dashboard: handleQuickAnalysis, to the end of its fetch
handleQuickAnalysis ==
    /\ page = "dashboard"
    /\ IF trim(quickAddress) = ""
       THEN /\ alerted' = Some("Please enter a property address")
            /\ UNCHANGED <<showQuickResults, error, requests>>
       ELSE /\ requests' = requests \cup
                    {BackendRequest("/quick-analysis", Some(quickAddress), None, None)}
            /\ \E outcome \in {"ok", "failed", "aborted"} :
                 IF outcome = "ok"
                 THEN /\ showQuickResults' = TRUE
                      /\ error' = None
                 ELSE /\ error' = Some("Analysis failed")
                      /\ UNCHANGED showQuickResults
            /\ UNCHANGED alerted
    /\ UNCHANGED <<page, quickAddress, propertyAddress, documentsAddress, t12File,
                   rentRollFile, loading, uploadProgress, currentStep, awaiting,
                   uploadId>>
    /\ UNCHANGED beside_browser

\* dashboard: the link to the new deal form
NewDeal ==
    /\ page = "dashboard"
    /\ Show("upload", None)
    /\ UNCHANGED alerted
    /\ UNCHANGED beside_browser

\* new deal form: the address input
setPropertyAddress ==
    /\ page = "upload"
    /\ propertyAddress' \in FormAddresses
    /\ UNCHANGED <<page, quickAddress, showQuickResults, error, documentsAddress,
                   t12File, rentRollFile, loading, uploadProgress, currentStep,
                   awaiting, uploadId, alerted, requests>>
    /\ UNCHANGED beside_browser

\* new deal form: handleAnalyzeProperty
handleAnalyzeProperty ==
    /\ page = "upload"
    /\ trim(propertyAddress) # ""
    /\ Show("documents", Some(encoded[propertyAddress]))
    /\ UNCHANGED alerted
    /\ UNCHANGED beside_browser

\* documents page: the two upload boxes
setT12File ==
    /\ page = "documents"
    /\ ~loading
    /\ t12File' \in {Some(f) : f \in T12Files}
    /\ UNCHANGED <<page, quickAddress, showQuickResults, error, propertyAddress,
                   documentsAddress, rentRollFile, loading, uploadProgress,
                   currentStep, awaiting, uploadId, alerted, requests>>
    /\ UNCHANGED beside_browser

setRentRollFile ==
    /\ page = "documents"
    /\ ~loading
    /\ rentRollFile' \in {Some(f) : f \in RentRollFiles}
    /\ UNCHANGED <<page, quickAddress, showQuickResults, error, propertyAddress,
                   documentsAddress, t12File, loading, uploadProgress, currentStep,
                   awaiting, uploadId, alerted, requests>>
    /\ UNCHANGED beside_browser

\* documents page: the Back button
BackToAddress ==
    /\ page = "documents"
    /\ ~loading
    /\ Show("upload", None)
    /\ UNCHANGED alerted
    /\ UNCHANGED beside_browser

\* the catch of handleContinueToAnalysis
CatchProcessingError ==
    /\ alerted' = Some("An error occurred during processing. Please try again.")
    /\ loading' = FALSE
    /\ uploadProgress' = 0
    /\ currentStep' = ""
    /\ awaiting' = "nothing"

\* documents page: handleContinueToAnalysis, to its fetch of /upload
handleContinueToAnalysis ==
    /\ page = "documents"
    /\ ~loading
    /\ t12File # None /\ rentRollFile # None
    /\ loading' = TRUE
    /\ uploadProgress' = 20
    /\ currentStep' = "Uploading documents..."
    /\ requests' = requests \cup {BackendRequest("/upload", Some(documentsAddress), None, None)}
    /\ awaiting' = "/upload"
    /\ UNCHANGED <<page, quickAddress, showQuickResults, error, propertyAddress,
                   documentsAddress, t12File, rentRollFile, uploadId, alerted>>
    /\ UNCHANGED beside_browser

\* an answer of /upload that is never looked at: /analyze is fetched with
\* whatever upload id there is
UploadReturns_Unchecked ==
    /\ awaiting = "/upload"
    /\ \E outcome \in {"ok", "failed", "aborted"} :
         /\ uploadId' = IF outcome = "ok" THEN Some("upload-1") ELSE None
         /\ uploadProgress' = 50
         /\ currentStep' = "Analyzing property data..."
         /\ requests' = requests \cup
                {BackendRequest("/analyze", None, uploadId', SentCriteria)}
         /\ awaiting' = "/analyze"
         /\ UNCHANGED <<loading, alerted>>
    /\ UNCHANGED <<page, quickAddress, showQuickResults, error, propertyAddress,
                   documentsAddress, t12File, rentRollFile>>
    /\ UNCHANGED beside_browser

\* /upload has answered, failed or timed out; on success /analyze is fetched
UploadReturns ==
    /\ awaiting = "/upload"
    /\ \E outcome \in {"ok", "failed", "aborted"} :
         IF outcome = "ok"
         THEN /\ uploadId' = Some("upload-1")
              /\ uploadProgress' = 50
              /\ currentStep' = "Analyzing property data..."
              /\ requests' = requests \cup
                     {BackendRequest("/analyze", None, uploadId', SentCriteria)}
              /\ awaiting' = "/analyze"
              /\ UNCHANGED <<loading, alerted>>
         ELSE /\ CatchProcessingError
              /\ UNCHANGED <<uploadId, requests>>
    /\ UNCHANGED <<page, quickAddress, showQuickResults, error, propertyAddress,
                   documentsAddress, t12File, rentRollFile>>
    /\ UNCHANGED beside_browser

\* /analyze has answered, failed or timed out
AnalysisReturns ==
    /\ awaiting = "/analyze"
    /\ \E outcome \in {"ok", "failed", "aborted"} :
         IF outcome = "ok"
         THEN /\ uploadProgress' = 100
              /\ currentStep' = "Analysis complete!"
              /\ awaiting' = "delay"
              /\ UNCHANGED <<loading, alerted>>
         ELSE CatchProcessingError
    /\ UNCHANGED <<page, quickAddress, showQuickResults, error, propertyAddress,
                   documentsAddress, t12File, rentRollFile, uploadId, requests>>
    /\ UNCHANGED beside_browser

\* after the delay: router.push to the results page
ShowResults ==
    /\ awaiting = "delay"
    /\ Show("results", None)
    /\ UNCHANGED alerted
    /\ UNCHANGED beside_browser

NextBrowser ==
    \/ OpenUrl
    \/ setQuickAddress
    \/ handleQuickAnalysis
    \/ NewDeal
    \/ setPropertyAddress
    \/ handleAnalyzeProperty
    \/ setT12File
    \/ setRentRollFile
    \/ BackToAddress
    \/ handleContinueToAnalysis
    \/ UploadReturns
    \/ AnalysisReturns
    \/ ShowResults

SpecBrowser == Init /\ [][NextBrowser]_vars

(***************************************************************************)
(* The Buy-Box Evaluator and the two entry points of the pipeline, quick   *)
(* lookup and full underwriting.  Percentages are in tenths of a percent   *)
(* (6.2 % is 62) and the debt service coverage ratio is in hundredths      *)
(* (1.34 is 134); a ratio of a metric to its threshold does not depend on  *)
(* the unit.                                                               *)
(***************************************************************************)
\* what a step of the pipeline leaves alone
beside_evaluator ==
    <<service_vars, previous, browser_vars, settings_vars, auth_vars, comparison_vars>>

\* the criteria of a user who saved stricter ones
StricterCriteria ==
    [minCashOnCash |-> 90, minCapRate |-> 70, minIRR |-> 150, minDSCR |-> 125,
     maxPrice |-> 3000000, minPrice |-> 1000000, minUnits |-> 30, maxUnits |-> 60]

CriteriaSets == {defaultCriteria, StricterCriteria}

\* the metrics of the deals: below, at and above the default thresholds, a
\* negative cash-on-cash return and a negative rate of return among them
CapRates == {30, 60, 62}
CashOnCashReturns == {-40, 80, 84}
InternalRatesOfReturn == {-500, 120, 147}
DebtServiceCoverages == {60, 120, 134}

MetricsSets ==
    [capRate : CapRates, cashOnCash : CashOnCashReturns,
     irr : InternalRatesOfReturn, dscr : DebtServiceCoverages]

\* the prices and unit counts of the deals: outside, at and inside the bounds
Prices == {400000, 500000, 2850000, 5000000, 6000000}
UnitCounts == {10, 20, 48, 100, 120}

PropertyRecords == [price : Prices, units : UnitCounts]

Ratios == {"capRate", "cashOnCash", "irr", "dscr"}

\* equal weights
Weights_Equal == [capRate |-> 20, cashOnCash |-> 20, irr |-> 20, dscr |-> 20]

Weights == [capRate |-> 25, cashOnCash |-> 25, irr |-> 30, dscr |-> 20]

\* the threshold of each ratio
Threshold(thresholds, ratio) ==
    CASE ratio = "capRate" -> thresholds.minCapRate
      [] ratio = "cashOnCash" -> thresholds.minCashOnCash
      [] ratio = "irr" -> thresholds.minIRR
      [] ratio = "dscr" -> thresholds.minDSCR

\* thresholds that are violated already when they are met exactly
Violations_Inclusive(metrics, property, thresholds) ==
    {ratio \in Ratios : metrics[ratio] <= Threshold(thresholds, ratio)}
        \cup (IF property.price <= thresholds.minPrice \/ property.price >= thresholds.maxPrice
              THEN {"price"} ELSE {})
        \cup (IF property.units <= thresholds.minUnits \/ property.units >= thresholds.maxUnits
              THEN {"units"} ELSE {})

\* the hard thresholds a deal violates
Violations(metrics, property, thresholds) ==
    {ratio \in Ratios : metrics[ratio] < Threshold(thresholds, ratio)}
        \cup (IF property.price < thresholds.minPrice \/ property.price > thresholds.maxPrice
              THEN {"price"} ELSE {})
        \cup (IF property.units < thresholds.minUnits \/ property.units > thresholds.maxUnits
              THEN {"units"} ELSE {})

RECURSIVE GCD(_, _)
GCD(a, b) == IF b = 0 THEN a ELSE GCD(b, a % b)

LCM(a, b) == (a \div GCD(a, b)) * b

\* a denominator all four ratios actual/threshold share
CommonDenominator(thresholds) ==
    LCM(LCM(thresholds.minCapRate, thresholds.minCashOnCash),
        LCM(thresholds.minIRR, thresholds.minDSCR))

\* min(1, actual/threshold) * weight, as a numerator over the common
\* denominator
Contribution(metrics, thresholds, ratio) ==
    LET threshold == Threshold(thresholds, ratio)
        denominator == CommonDenominator(thresholds)
    IN  IF metrics[ratio] >= threshold
        THEN Weights[ratio] * denominator
        ELSE Weights[ratio] * metrics[ratio] * (denominator \div threshold)

\* round(numerator / denominator), a half to the even integer
Round(numerator, denominator) ==
    LET floor == numerator \div denominator
        rest == numerator - floor * denominator
    IN  IF 2 * rest < denominator THEN floor
        ELSE IF 2 * rest > denominator THEN floor + 1
        ELSE IF floor % 2 = 0 THEN floor ELSE floor + 1

\* the score: the four contributions summed and rounded
Score(metrics, thresholds) ==
    Round(Contribution(metrics, thresholds, "capRate")
            + Contribution(metrics, thresholds, "cashOnCash")
            + Contribution(metrics, thresholds, "irr")
            + Contribution(metrics, thresholds, "dscr"),
          CommonDenominator(thresholds))

\* an evaluator that judges a deal without metrics by its price and units
Evaluate_GuessFromProperty(metrics, property, thresholds) ==
    IF metrics = None
    THEN [passFail |-> IF property.price > thresholds.maxPrice THEN "Fail" ELSE "Pass",
          score |-> 50,
          computedMetrics |-> None]
    ELSE [passFail |-> IF Violations(metrics, property, thresholds) # {}
                       THEN "Fail" ELSE "Pass",
          score |-> Score(metrics, thresholds),
          computedMetrics |-> metrics]

\* an evaluator that gives a failed deal no score
Evaluate_ZeroOnFail(metrics, property, thresholds) ==
    IF metrics = None
    THEN [passFail |-> "Incomplete", score |-> 0, computedMetrics |-> None]
    ELSE [passFail |-> IF Violations(metrics, property, thresholds) # {}
                       THEN "Fail" ELSE "Pass",
          score |-> IF Violations(metrics, property, thresholds) # {}
                    THEN 0 ELSE Score(metrics, thresholds),
          computedMetrics |-> metrics]

\* the evaluator: Incomplete and 0 without metrics, else verdict and score
Evaluate(metrics, property, thresholds) ==
    IF metrics = None
    THEN [passFail |-> "Incomplete", score |-> 0, computedMetrics |-> None]
    ELSE [passFail |-> IF Violations(metrics, property, thresholds) # {}
                       THEN "Fail" ELSE "Pass",
          score |-> Score(metrics, thresholds),
          computedMetrics |-> metrics]

\* quick lookup: an address, no financial documents
QuickLookup ==
    /\ entryPoint = "none"
    /\ entryPoint' = "quick"
    /\ computedMetrics' = None
    /\ propertyRecord' \in PropertyRecords
    /\ investmentCriteria' \in CriteriaSets
    /\ analysisResult' = Evaluate(computedMetrics', propertyRecord', investmentCriteria')
    /\ UNCHANGED beside_evaluator

\* full underwriting: the metrics computed from the financial inputs
FullUnderwriting ==
    /\ entryPoint = "none"
    /\ entryPoint' = "full"
    /\ computedMetrics' \in MetricsSets
    /\ propertyRecord' \in PropertyRecords
    /\ investmentCriteria' \in CriteriaSets
    /\ analysisResult' = Evaluate(computedMetrics', propertyRecord', investmentCriteria')
    /\ UNCHANGED beside_evaluator

\* the result is delivered; another analysis makes a new one
NextAnalysis ==
    /\ entryPoint # "none"
    /\ entryPoint' = "none"
    /\ computedMetrics' = None
    /\ propertyRecord' = None
    /\ investmentCriteria' = None
    /\ analysisResult' = None
    /\ UNCHANGED beside_evaluator

NextEvaluator ==
    \/ QuickLookup
    \/ FullUnderwriting
    \/ NextAnalysis

SpecEvaluator == Init /\ [][NextEvaluator]_vars

(***************************************************************************)
(* The settings page: the criteria are loaded when the page opens, edited  *)
(* in the form and saved to the backend and to localStorage.               *)
(***************************************************************************)
\* what a step of the settings page leaves alone
beside_settings ==
    <<service_vars, previous, browser_vars, evaluator_vars, auth_vars, comparison_vars>>

\* the values the inputs of the form are given
FieldValues ==
    [minCapRate |-> {60, 70}, maxPrice |-> {5000000, 3000000}]

\* JSON.stringify(criteria) and JSON.parse(saved)
JSONstringify(value) == <<"json", value>>
JSONparse(text) == text[2]

\* { ...defaultCriteria, ...data }
WithDefaults(data) == data @@ defaultCriteria

\* the page is opened: useState(defaultCriteria), loading
OpenSettings ==
    /\ settingsPage = "closed"
    /\ settingsPage' = "loading"
    /\ criteria' = defaultCriteria
    /\ saving' = FALSE
    /\ UNCHANGED <<savingCriteria, storedCriteria, localStorageItem>>
    /\ UNCHANGED beside_settings

\* loadCriteria: the criteria of the backend, or of localStorage when the
\* backend answers with an error or not at all
loadCriteria ==
    /\ settingsPage = "loading"
    /\ \E outcome \in {"ok", "failed", "unreachable"} :
         IF outcome = "ok"
         THEN criteria' = IF storedCriteria = None THEN defaultCriteria
                          ELSE WithDefaults(storedCriteria)
         ELSE IF localStorageItem # None
         THEN criteria' = WithDefaults(JSONparse(localStorageItem))
         ELSE UNCHANGED criteria
    /\ settingsPage' = "ready"
    /\ UNCHANGED <<saving, savingCriteria, storedCriteria, localStorageItem>>
    /\ UNCHANGED beside_settings

\* handleInputChange(field, value)
handleInputChange ==
    /\ settingsPage = "ready"
    /\ \E field \in DOMAIN FieldValues :
       \E value \in FieldValues[field] :
           criteria' = [criteria EXCEPT ![field] = value]
    /\ UNCHANGED <<settingsPage, saving, savingCriteria, storedCriteria,
                   localStorageItem>>
    /\ UNCHANGED beside_settings

\* a reset that also forgets the backup
handleReset_RemovesBackup ==
    /\ settingsPage = "ready"
    /\ criteria' = defaultCriteria
    /\ localStorageItem' = None
    /\ UNCHANGED <<settingsPage, saving, savingCriteria, storedCriteria>>
    /\ UNCHANGED beside_settings

\* handleReset
handleReset ==
    /\ settingsPage = "ready"
    /\ criteria' = defaultCriteria
    /\ UNCHANGED <<settingsPage, saving, savingCriteria, storedCriteria,
                   localStorageItem>>
    /\ UNCHANGED beside_settings

\* handleSave, to its fetch: the criteria of this render are posted
handleSave ==
    /\ settingsPage = "ready"
    /\ ~saving
    /\ saving' = TRUE
    /\ savingCriteria' = criteria
    /\ UNCHANGED <<settingsPage, criteria, storedCriteria, localStorageItem>>
    /\ UNCHANGED beside_settings

\* handleSave, from the answer of its fetch: the backend has stored the
\* criteria and answered, has refused them, or the answer never came; the
\* backup is written in each case, unless localStorage refuses it
SaveReturns ==
    /\ saving
    /\ \E outcome \in {"ok", "failed", "unreachable"} :
         storedCriteria' \in
             CASE outcome = "ok" -> {savingCriteria}
               [] outcome = "failed" -> {storedCriteria}
               [] outcome = "unreachable" -> {storedCriteria, savingCriteria}
    /\ \E storageThrows \in BOOLEAN :
         IF storageThrows THEN UNCHANGED localStorageItem
         ELSE localStorageItem' = JSONstringify(savingCriteria)
    /\ saving' = FALSE
    /\ savingCriteria' = None
    /\ UNCHANGED <<settingsPage, criteria>>
    /\ UNCHANGED beside_settings

\* the user leaves the page; its state is gone
CloseSettings ==
    /\ settingsPage # "closed"
    /\ ~saving
    /\ settingsPage' = "closed"
    /\ criteria' = defaultCriteria
    /\ UNCHANGED <<saving, savingCriteria, storedCriteria, localStorageItem>>
    /\ UNCHANGED beside_settings

NextSettings ==
    \/ OpenSettings
    \/ loadCriteria
    \/ handleInputChange
    \/ handleReset
    \/ handleSave
    \/ SaveReturns
    \/ CloseSettings

SpecSettings == Init /\ [][NextSettings]_vars

(***************************************************************************)
(* The AuthProvider: initAuth, the listener of Supabase's auth state        *)
(* changes, signOut and refreshAuth; the OTP login of the login page; the   *)
(* email confirmation page.                                                 *)
(***************************************************************************)
\* what a step of the authentication leaves alone
beside_auth ==
    <<service_vars, previous, browser_vars, evaluator_vars, settings_vars,
      comparison_vars>>

confirm_vars == <<status, message, confirmEmailAt>>

\* the user built from the demo_user item: its email counts as confirmed
customUser == Some([loginMethod |-> "otp", email_confirmed_at |-> TRUE])

\* session.user
sessionUser(s) == Some([loginMethod |-> "supabase", email_confirmed_at |-> s[1].email_confirmed_at])

\* a user is set for every session, confirmed or not
UserOfSession_Unconfirmed(s) ==
    IF s # None THEN sessionUser(s) ELSE None

\* what initAuth, refreshAuth and the listener make of a session: its user
\* when the email is confirmed, null otherwise
UserOfSession(s) ==
    IF s # None /\ s[1].email_confirmed_at THEN sessionUser(s) ELSE None

\* the page is loaded again: the provider is mounted anew, what was pending
\* is gone, localStorage and Supabase keep what they hold
Reload ==
    /\ initAuthAt # "start"
    /\ user' = None
    /\ authLoading' = TRUE
    /\ initAuthAt' = "start"
    /\ refreshAuthAt' = "idle"
    /\ signOutAt' = "idle"
    /\ UNCHANGED <<demo_user, session, confirm_vars>>
    /\ UNCHANGED beside_auth

\* initAuth, to its return or to its await of getSession
initAuth ==
    /\ initAuthAt = "start"
    /\ IF demo_user # None
       THEN /\ user' = customUser
            /\ authLoading' = FALSE
            /\ initAuthAt' = "done"
       ELSE /\ initAuthAt' = "getSession"
            /\ UNCHANGED <<user, authLoading>>
    /\ UNCHANGED <<demo_user, session, refreshAuthAt, signOutAt, confirm_vars>>
    /\ UNCHANGED beside_auth

\* initAuth, from getSession: the session Supabase holds, or a throw
initAuthResumes ==
    /\ initAuthAt = "getSession"
    /\ \E throws \in BOOLEAN :
         user' = IF throws THEN None ELSE UserOfSession(session)
    /\ authLoading' = FALSE
    /\ initAuthAt' = "done"
    /\ UNCHANGED <<demo_user, session, refreshAuthAt, signOutAt, confirm_vars>>
    /\ UNCHANGED beside_auth

\* Supabase reports an auth event to the listener, with the session it has
\* then: the initial session, a sign-in, a sign-out, a refreshed token
onAuthStateChange ==
    /\ initAuthAt # "start"
    /\ \E s \in Sessions :
         /\ session' = s
         /\ user' = UserOfSession(s)
    /\ UNCHANGED <<authLoading, demo_user, initAuthAt, refreshAuthAt, signOutAt,
                   confirm_vars>>
    /\ UNCHANGED beside_auth

\* a signOut whose catch does not remove the item
signOut_KeepsItem ==
    /\ initAuthAt # "start"
    /\ signOutAt # "signOut"
    /\ signOutAt' = "signOut"
    /\ UNCHANGED <<user, authLoading, demo_user, session, initAuthAt, refreshAuthAt,
                   confirm_vars>>
    /\ UNCHANGED beside_auth

\* signOut, to its await of supabase.auth.signOut()
signOut ==
    /\ initAuthAt # "start"
    /\ signOutAt # "signOut"
    /\ demo_user' = None
    /\ signOutAt' = "signOut"
    /\ UNCHANGED <<user, authLoading, session, initAuthAt, refreshAuthAt,
                   confirm_vars>>
    /\ UNCHANGED beside_auth

\* signOut, from supabase.auth.signOut(): it has ended the session, or it
\* throws and the session is ended or not
signOutReturns ==
    /\ signOutAt = "signOut"
    /\ \E throws \in BOOLEAN :
         IF throws
         THEN /\ demo_user' = None
              /\ session' \in {session, None}
              /\ signOutAt' = "thrown"
         ELSE /\ session' = None
              /\ signOutAt' = "returned"
              /\ UNCHANGED demo_user
    /\ user' = None
    /\ UNCHANGED <<authLoading, initAuthAt, refreshAuthAt, confirm_vars>>
    /\ UNCHANGED beside_auth

\* refreshAuth, to its return or to its await of getSession
refreshAuth ==
    /\ initAuthAt # "start"
    /\ refreshAuthAt = "idle"
    /\ IF demo_user # None
       THEN /\ user' = customUser
            /\ authLoading' = FALSE
            /\ UNCHANGED refreshAuthAt
       ELSE /\ authLoading' = TRUE
            /\ refreshAuthAt' = "getSession"
            /\ UNCHANGED user
    /\ UNCHANGED <<demo_user, session, initAuthAt, signOutAt, confirm_vars>>
    /\ UNCHANGED beside_auth

\* refreshAuth, from getSession
refreshAuthResumes ==
    /\ refreshAuthAt = "getSession"
    /\ \E throws \in BOOLEAN :
         user' = IF throws THEN None ELSE UserOfSession(session)
    /\ authLoading' = FALSE
    /\ refreshAuthAt' = "idle"
    /\ UNCHANGED <<demo_user, session, initAuthAt, signOutAt, confirm_vars>>
    /\ UNCHANGED beside_auth

\* login page: handleLogin with the OTP method, from a valid answer of
\* /auth/verify-otp: the item is stored and refreshAuth finds it.  The login
\* form is not submitted while a signOut is running.
handleLogin ==
    /\ initAuthAt # "start"
    /\ refreshAuthAt = "idle"
    /\ signOutAt # "signOut"
    /\ demo_user' = Some("otp")
    /\ user' = customUser
    /\ authLoading' = FALSE
    /\ UNCHANGED <<session, initAuthAt, refreshAuthAt, signOutAt, confirm_vars>>
    /\ UNCHANGED beside_auth

\* the parameters of a confirmation link
TokenHashes == {None, Some("token")}
LinkTypes == {None, Some("signup"), Some("recovery")}

\* confirmation page: it is opened and confirmEmail runs to its return or to
\* its await of verifyOtp
confirmEmail ==
    /\ initAuthAt # "start"
    /\ confirmEmailAt = "closed"
    /\ \E token_hash \in TokenHashes, linkType \in LinkTypes :
         IF token_hash = None \/ linkType # Some("signup")
         THEN /\ status' = "error"
              /\ message' = "Invalid confirmation link"
              /\ confirmEmailAt' = "done"
         ELSE /\ status' = "loading"
              /\ message' = ""
              /\ confirmEmailAt' = "verifyOtp"
    /\ UNCHANGED <<user, authLoading, demo_user, session, initAuthAt, refreshAuthAt,
                   signOutAt>>
    /\ UNCHANGED beside_auth

\* confirmEmail, from verifyOtp: an error, a user, neither, or a throw.  With
\* a user Supabase holds the session of the confirmed email and reports the
\* sign-in to the listener.
verifyOtpReturns ==
    /\ confirmEmailAt = "verifyOtp"
    /\ \E outcome \in {"error", "user", "neither", "throws"} :
         CASE outcome = "error" ->
                /\ status' = "error"
                /\ message' = "error.message"
                /\ confirmEmailAt' = "done"
                /\ UNCHANGED <<session, user>>
           [] outcome = "user" ->
                /\ status' = "success"
                /\ message' = "Email confirmed successfully! You can now sign in."
                /\ confirmEmailAt' = "redirect"
                /\ session' = Some([email_confirmed_at |-> TRUE])
                /\ user' = UserOfSession(session')
           [] outcome = "neither" ->
                /\ confirmEmailAt' = "done"
                /\ UNCHANGED <<status, message, session, user>>
           [] outcome = "throws" ->
                /\ status' = "error"
                /\ message' = "An unexpected error occurred"
                /\ confirmEmailAt' = "done"
                /\ UNCHANGED <<session, user>>
    /\ UNCHANGED <<authLoading, demo_user, initAuthAt, refreshAuthAt, signOutAt>>
    /\ UNCHANGED beside_auth

\* the confirmation page is left: after its three seconds for the login
\* page, or by the user; its state is gone
LeaveConfirmPage ==
    /\ confirmEmailAt \in {"done", "redirect"}
    /\ status' = "loading"
    /\ message' = ""
    /\ confirmEmailAt' = "closed"
    /\ UNCHANGED <<user, authLoading, demo_user, session, initAuthAt, refreshAuthAt,
                   signOutAt>>
    /\ UNCHANGED beside_auth

NextAuth ==
    \/ Reload
    \/ initAuth
    \/ initAuthResumes
    \/ onAuthStateChange
    \/ signOut
    \/ signOutReturns
    \/ refreshAuth
    \/ refreshAuthResumes
    \/ handleLogin
    \/ confirmEmail
    \/ verifyOtpReturns
    \/ LeaveConfirmPage

SpecAuth == Init /\ [][NextAuth]_vars

(***************************************************************************)
(* The comparison page: the list of the analysed properties and the        *)
(* selection of those to compare.                                          *)
(***************************************************************************)
\* what a step of the comparison page leaves alone
beside_comparison ==
    <<service_vars, previous, browser_vars, evaluator_vars, settings_vars, auth_vars>>

\* the ids of the analyses the backend has for the user
PropertyIds == <<"a1", "a2", "a3", "a4", "a5">>

\* prev.includes(propertyId)
includes(prev, id) == \E i \in 1..Len(prev) : prev[i] = id

\* prev.filter((id) => id !== propertyId)
filter(prev, propertyId_) == SelectSeq(prev, LAMBDA id : id # propertyId_)

\* fetchProperties, from its fetch of /user/analyses
fetchPropertiesReturns ==
    /\ comparisonLoading
    /\ \E outcome \in {"ok", "failed"} :
         IF outcome = "ok"
         THEN \E n \in 0..Len(PropertyIds) : properties' = SubSeq(PropertyIds, 1, n)
         ELSE UNCHANGED properties
    /\ comparisonLoading' = FALSE
    /\ UNCHANGED <<selectedProperties, propertyId>>
    /\ UNCHANGED beside_comparison

\* the updater of a selection without a limit
Toggle_NoLimit(prev, id) ==
    IF includes(prev, id) THEN filter(prev, id) ELSE Append(prev, id)

\* the updater handlePropertySelect gives to setSelectedProperties
Toggle(prev, id) ==
    IF includes(prev, id) THEN filter(prev, id)
    ELSE IF Len(prev) < 4 THEN Append(prev, id)
    ELSE prev

\* handlePropertySelect(propertyId), from the click on a listed property
handlePropertySelect ==
    /\ ~comparisonLoading
    /\ \E i \in 1..Len(properties) :
         /\ propertyId' = Some(properties[i])
         /\ selectedProperties' = Toggle(selectedProperties, properties[i])
    /\ UNCHANGED <<comparisonLoading, properties>>
    /\ UNCHANGED beside_comparison

NextComparison ==
    \/ fetchPropertiesReturns
    \/ handlePropertySelect

SpecComparison == Init /\ [][NextComparison]_vars

(***************************************************************************)
(* What the claims speak of.                                               *)
(***************************************************************************)
Returned == pc \in {"done", "responded"}

\* the providers gave get_property_data no usable record
NoUsableProviderData ==
    ~IsUseful(get_free_property_data(authoritative_answer, public_answer).data)

\* the address has a multifamily or commercial word or a unit number
HasIndicator(a) ==
    \/ is_likely_multifamily(lower(a))
    \/ re_search(lower(a)) # None
    \/ is_commercial(lower(a))

\* the estimates the estimator has produced for this request
Estimates == {basic_estimates, estimated_data} \ {None}

\* the fields that describe the property
Content(r) ==
    [f \in {"address", "property_type", "units", "square_footage", "estimated_value"}
        |-> r[f]]

\* lines 72-95 for an address: the basic estimates, or the minimal structure
NoDataResult(a) ==
    LET estimates == get_basic_property_estimates(a, FALSE)
    IN  IF estimates # None THEN estimates ELSE MinimalRecord(a)

\* C1: for every address and every outcome of the providers (record, no data,
\* raised error) get_property_data returns one record whose confidence is an
\* integer in 0..100, and no exception leaves it.
C1_ReturnsOneRecord ==
    /\ raised = FALSE
    /\ pc \in {"call_provider", "check", "minimal", "except"} => result = None
    /\ Returned => /\ result # None
                   /\ result.confidence \in 0..100

C1_Witness ==
    /\ pc = "done"
    /\ provider_raises
    /\ result.confidence = 0

\* C2 as stated: whenever the providers yield no usable record the resolver
\* forces an estimate, so what it returns is an estimate of a known type and
\* never the Unknown record of confidence 0.  Stated for the addresses of the
\* repository's test scripts, the claim's own example among them.
C2_ResolverForcesEstimate ==
    (Returned /\ NoUsableProviderData /\ ~provider_raises /\ address \in TestAddresses)
        => /\ result.is_estimated_data
           /\ result.property_type # "Unknown"

\* C2 as amended: get_property_data asks for the estimates without forcing them,
\* so without usable provider data it returns an estimate only for an address
\* with an indicator and the Unknown record of confidence 0 otherwise; the
\* estimate is forced by the quick-analysis endpoint, which then always answers
\* with an estimate of a known type.
C2_EndpointForcesEstimate ==
    /\ (Returned /\ NoUsableProviderData)
          => /\ \/ result.property_type = "Unknown" /\ result.confidence = 0
                \/ /\ result.is_estimated_data
                   /\ result.property_type \in {"Multifamily", "Commercial"}
             /\ ~HasIndicator(address) => result.property_type = "Unknown"
    /\ (pc = "responded" /\ NoUsableProviderData)
          => /\ response.is_estimated_data
             /\ response.property_type \in
                    {"Multifamily", "Commercial", "Single Family"}
             /\ ~HasIndicator(address) => response.property_type = "Single Family"

C2_Witness ==
    /\ pc = "responded"
    /\ address = "123 Main St, Anytown USA"
    /\ ~provider_raises
    /\ result.property_type = "Unknown"
    /\ response.property_type = "Single Family"

\* C3: when the provider call raises, the resolver goes on to the estimator and
\* returns the record it would return had the providers answered with no data.
C3_RaiseIsNoData ==
    (Returned /\ provider_raises)
        => /\ result = NoDataResult(address)
           /\ \E k \in DOMAIN calls : calls[k] = "estimator"

\* C4: a returned record that is an estimate has confidence at most 30 and the
\* estimator as its only source; a record a provider contributed has
\* confidence at least 60.
C4_ConfidenceBands ==
    Returned =>
        /\ result.is_estimated_data
              => /\ result.confidence <= 30
                 /\ result.sources = <<"Address Analysis">>
        /\ yielded_by = "provider" => result.confidence >= 60

C4_Witness ==
    /\ pc = "done"
    /\ yielded_by = "provider"
    /\ ~result.is_estimated_data
    /\ result.confidence = 80

WaterfallOrder == <<"authoritative", "public", "estimator">>

Invoked(step) == \E k \in DOMAIN calls : calls[k] = step

C6_KnownTypeHasUnits ==
    (Returned /\ result.property_type # "Unknown")
        => /\ result.units # None
           /\ result.units[1] >= 1

\* C6 as amended: every estimate the resolver returns has at least one unit; a
\* record passed through from a provider keeps the provider's units as they
\* are, and they may be absent.
C6_EstimateHasUnits ==
    Returned =>
        /\ yielded_by = "estimator"
              => /\ result.units # None
                 /\ result.units[1] >= 1
        /\ yielded_by = "provider" => result.units = property_data.units

C6_Witness ==
    /\ pc = "done"
    /\ yielded_by = "provider"
    /\ result.property_type = "Commercial"
    /\ result.units = None

UnitHint(a) == Max(unit_numbers(re_search(lower(a))))

\* C8: a Multifamily estimate has between 20 and 100 units, and with a unit
\* hint h it has min(max(h + 10, 20), 100) of them.
C8_UnitsClamped ==
    \A e \in Estimates :
        e.property_type = "Multifamily"
            => /\ e.units[1] \in 20..100
               /\ re_search(lower(e.address)) # None
                     => e.units[1] = min(max(UnitHint(e.address) + 10, 20), 100)
               /\ e.address = "Apt4" => e.units[1] = 20
               /\ e.address = "unit35" => e.units[1] = 45
               /\ e.address = "#95" => e.units[1] = 100

C8_Witness ==
    /\ basic_estimates # None
    /\ address = "#95"
    /\ UnitHint(address) = 95
    /\ basic_estimates.units = Some(100)

WilshireAddress == "Wilshire Apartment Complex, Los Angeles, CA"

\* C9: a Multifamily estimate has 850 square feet, 55000 of value and 18 of
\* rent per unit, confidence 25 and the estimated flag, and 48 units when the
\* address has no unit number; with no provider data the Wilshire address
\* resolves to Multifamily, 48 units, 40800 square feet, 2640000.
C9_MultifamilyEstimate ==
    /\ \A e \in Estimates :
          e.property_type = "Multifamily"
              => /\ e.square_footage = Some(e.units[1] * 850)
                 /\ e.estimated_value = e.units[1] * 55000
                 /\ e.avg_rent_per_unit = e.units[1] * 18
                 /\ e.confidence = 25
                 /\ e.is_estimated_data
                 /\ re_search(lower(e.address)) = None => e.units = Some(48)
    /\ (Returned /\ address = WilshireAddress /\ NoUsableProviderData
            /\ ~provider_raises)
          => /\ result.property_type = "Multifamily"
             /\ result.units = Some(48)
             /\ result.square_footage = Some(40800)
             /\ result.estimated_value = 2640000
             /\ result.confidence = 25
             /\ result.is_estimated_data

C9_Witness ==
    /\ pc = "done"
    /\ address = WilshireAddress
    /\ NoUsableProviderData
    /\ ~provider_raises
    /\ result.units = Some(48)

MainStAddress == "123 Main St, Anytown USA"

\* C10: with forced estimation an address with no multifamily and no
\* commercial indicator is estimated as Single Family with 1 unit, 2000 square
\* feet and a value of 450000.
C10_SingleFamilyDefault ==
    /\ (estimated_data # None /\ ~HasIndicator(address))
          => /\ estimated_data.property_type = "Single Family"
             /\ estimated_data.units = Some(1)
             /\ estimated_data.square_footage = Some(2000)
             /\ estimated_data.estimated_value = 450000
    /\ (pc = "responded" /\ address = MainStAddress /\ NoUsableProviderData)
          => /\ estimated_data # None
             /\ response.property_type = "Single Family"
             /\ response.units = Some(1)
             /\ response.square_footage = Some(2000)
             /\ response.estimated_value = 450000

C10_Witness ==
    /\ pc = "responded"
    /\ address = MainStAddress
    /\ estimated_data # None
    /\ response.property_type = "Single Family"
    /\ response.estimated_value = 450000

\* the address speaks of an apartment or a unit
ApartmentWording(a) ==
    \E wording \in {"apt", "apartment", "unit", "#"} : Contains(lower(a), wording)

\* C11: an address with a commercial indicator (commercial, business, office,
\* plaza) and no apartment or unit wording, such as '123 Office Plaza,
\* Business District', is estimated as Commercial with 1 unit, 5000 square
\* feet and a value of 1250000.
C11_CommercialEstimate ==
    \A e \in Estimates :
        (is_commercial(lower(e.address)) /\ ~ApartmentWording(e.address))
            => /\ e.property_type = "Commercial"
               /\ e.units = Some(1)
               /\ e.square_footage = Some(5000)
               /\ e.estimated_value = 1250000

\* C12: the estimator returns None exactly when the address has no
\* multifamily indicator, no unit number and no commercial indicator and the
\* estimation is not forced (the call of get_property_data); forced (the call
\* of the quick-analysis endpoint) it always returns a record; every record
\* it returns is flagged as estimated data.
C12_AbsentOnlyUnforcedWithoutIndicator ==
    /\ Invoked("estimator") => (basic_estimates = None <=> ~HasIndicator(address))
    /\ (pc = "responded" /\ ~has_meaningful_data(result)) => estimated_data # None
    /\ \A e \in Estimates : e.is_estimated_data = TRUE

C12_Witness ==
    /\ pc = "responded"
    /\ Invoked("estimator")
    /\ ~HasIndicator(address)
    /\ basic_estimates = None
    /\ estimated_data # None
    /\ estimated_data.is_estimated_data = TRUE

C14_NoBlankAddressRequest ==
    \A r \in requests : r.address # None => trim(r.address[1]) # ""

C16_FailExactlyOnViolation ==
    (analysisResult # None /\ computedMetrics # None)
        => LET m == computedMetrics
               p == propertyRecord
               c == investmentCriteria
               violated == \/ m.capRate < c.minCapRate
                           \/ m.cashOnCash < c.minCashOnCash
                           \/ m.irr < c.minIRR
                           \/ m.dscr < c.minDSCR
                           \/ p.price < c.minPrice \/ p.price > c.maxPrice
                           \/ p.units < c.minUnits \/ p.units > c.maxUnits
           IN  /\ analysisResult.passFail = (IF violated THEN "Fail" ELSE "Pass")
               /\ (/\ m.capRate = c.minCapRate /\ m.cashOnCash = c.minCashOnCash
                   /\ m.irr = c.minIRR /\ m.dscr = c.minDSCR
                   /\ p.price \in {c.minPrice, c.maxPrice}
                   /\ p.units \in {c.minUnits, c.maxUnits})
                      => analysisResult.passFail = "Pass"

C16_Witness ==
    /\ analysisResult # None
    /\ investmentCriteria = defaultCriteria
    /\ computedMetrics = [capRate |-> 60, cashOnCash |-> 80, irr |-> 120, dscr |-> 120]
    /\ propertyRecord = [price |-> 5000000, units |-> 20]
    /\ analysisResult.passFail = "Pass"

\* C17: for all metric values, a negative cash-on-cash return or rate of
\* return among them, and positive thresholds, the score is an integer from
\* 0 to 100.
C17_ScoreFrom0To100 ==
    analysisResult # None => analysisResult.score \in 0..100

\* C18: the score depends on the four ratios and their thresholds only: the
\* same ratios give the same score whatever the price and the units make of
\* the verdict; a Fail does not zero or change the score, and verdict and
\* score are both reported.
C18_ScoreIndependentOfVerdict ==
    (analysisResult # None /\ computedMetrics # None)
        => /\ \A other \in PropertyRecords :
                 Evaluate(computedMetrics, other, investmentCriteria).score
                     = analysisResult.score
           /\ analysisResult.score = Score(computedMetrics, investmentCriteria)
           /\ analysisResult.passFail \in {"Pass", "Fail"}
           /\ analysisResult.score \in Int

C18_Witness ==
    /\ analysisResult # None
    /\ investmentCriteria = defaultCriteria
    /\ computedMetrics = [capRate |-> 62, cashOnCash |-> 84, irr |-> 147, dscr |-> 60]
    /\ propertyRecord.price = 6000000
    /\ analysisResult.passFail = "Fail"
    /\ analysisResult.score = 90

\* the metrics of the example: 6.2 %, 8.4 %, 14.7 % and 1.34
ExampleMetrics == [capRate |-> 62, cashOnCash |-> 84, irr |-> 147, dscr |-> 134]

\* C19: against the thresholds 6 %, 8 %, 12 % and 1.2 the metrics 6.2 %,
\* 8.4 %, 14.7 % and 1.34 of a property within the price and unit bounds give
\* the verdict Pass and a score above 80.
C19_ExamplePasses ==
    (/\ analysisResult # None
     /\ computedMetrics = ExampleMetrics
     /\ investmentCriteria = defaultCriteria
     /\ Violations(computedMetrics, propertyRecord, investmentCriteria)
            \cap {"price", "units"} = {})
        => /\ analysisResult.passFail = "Pass"
           /\ analysisResult.score > 80

C19_Witness ==
    /\ analysisResult # None
    /\ computedMetrics = ExampleMetrics
    /\ investmentCriteria = defaultCriteria
    /\ propertyRecord = [price |-> 2850000, units |-> 48]
    /\ analysisResult.passFail = "Pass"
    /\ analysisResult.score = 100

\* the criteria persisted for the user: by the backend and in localStorage
Persisted == <<storedCriteria, localStorageItem>>

\* C20: the persisted criteria, the backend's and the localStorage backup,
\* change only in a save the user asked for, and then to the criteria that
\* were saved; editing a field, resetting to the defaults and loading the page
\* change the state of the form only.
C20_PersistedOnlyBySave ==
    [][Persisted' # Persisted
          => /\ saving /\ ~saving'
             /\ storedCriteria' \in {storedCriteria, savingCriteria}
             /\ localStorageItem' \in {localStorageItem, JSONstringify(savingCriteria)}]_vars

C20_Witness ==
    /\ settingsPage = "ready"
    /\ ~saving
    /\ storedCriteria # None
    /\ storedCriteria.minCapRate = 70
    /\ localStorageItem = JSONstringify(storedCriteria)
    /\ criteria = defaultCriteria

\* every unit number of an address: the digits after each unit, apt or #
AllUnitNumbers(a) ==
    LET s == lower(a)
    IN  {int(MatchAt(s, i, UnitKeywords[k])[1]) :
            <<i, k>> \in {<<j, n>> \in (1..Len(s)) \X (1..Len(UnitKeywords)) :
                             MatchAt(s, j, UnitKeywords[n]) # None}}

\* C21: for an address with several unit-number patterns (unit N, apt N, #N)
\* the unit hint is the largest of the numbers, and the multifamily estimate
\* of the units is computed from that largest number.
C21_LargestUnitNumber ==
    \A e \in Estimates :
        re_search(lower(e.address)) # None
            => /\ UnitHint(e.address) = Max(AllUnitNumbers(e.address))
               /\ e.units = Some(min(max(Max(AllUnitNumbers(e.address)) + 10, 20), 100))

Letters == "abcdefghijklmnopqrstuvwxyz"
IsLetter(c) == \E k \in 1..Len(Letters) : CharAt(Letters, k) = c

\* the word occurs in the address with no letter before it and none after it
IsToken(a, word) ==
    LET s == lower(a)
    IN  \E i \in 1..Len(s) :
            /\ StartsWithAt(s, i, word)
            /\ i = 1 \/ ~IsLetter(CharAt(s, i - 1))
            /\ i + Len(word) > Len(s) \/ ~IsLetter(CharAt(s, i + Len(word)))

\* C22: an address is estimated as Multifamily only when a multifamily
\* indicator is a token of it or it has a unit-number pattern; an indicator
\* that occurs only inside a longer word ('unit' in 'United States', 'place'
\* in 'Placerville') does not make it Multifamily.
C22_MultifamilyOnlyByToken ==
    \A e \in Estimates :
        e.property_type = "Multifamily"
            => \/ \E k \in 1..Len(multifamily_indicators) :
                      IsToken(e.address, multifamily_indicators[k])
               \/ re_search(lower(e.address)) # None

\* the resolver fell through to its last step
FellThrough ==
    /\ Returned
    /\ ~raised
    /\ yielded_by = "nothing"

NextUnderwriting ==
    \/ NextSettings
    \/ NewDeal
    \/ setPropertyAddress
    \/ handleAnalyzeProperty
    \/ setT12File
    \/ setRentRollFile
    \/ handleContinueToAnalysis
    \/ UploadReturns
    \/ AnalysisReturns
    \/ ShowResults

SpecUnderwriting == Init /\ [][NextUnderwriting]_vars

\* the criteria the user saved last, as the settings page would load them:
\* those of the backend, else those of the backup, else the defaults
SavedCriteria ==
    IF storedCriteria # None THEN WithDefaults(storedCriteria)
    ELSE IF localStorageItem # None THEN WithDefaults(JSONparse(localStorageItem))
    ELSE defaultCriteria

\* C24: the investment_criteria of an analysis request are the criteria the
\* user saved last, or the defaults when none were saved; each threshold that
\* is sent has the saved value at the time the request is sent.
C24_SentCriteriaAreSaved ==
    [][\A q \in requests' \ requests :
          q.endpoint = "/analyze"
              => \A field \in DOMAIN q.investment_criteria :
                    q.investment_criteria[field] = SavedCriteria[field]]_vars

\* the /analyze request of the upload in hand is among the requests sent
AnalysisRequested ==
    \E q \in requests : q.endpoint = "/analyze" /\ q.upload_id = uploadId

C26_OtpUserStaysAuthenticated ==
    [][(/\ user = customUser
        /\ demo_user # None
        /\ demo_user' # None
        /\ initAuthAt' # "start")
           => user' # None]_vars

\* C27: the user is set only to the user of a Supabase session whose email is
\* confirmed or to the user of the stored demo_user item; the user of an
\* unconfirmed session is never the user.
C27_UserOnlyConfirmedOrOtp ==
    [][/\ user' # None => user'[1].email_confirmed_at
       /\ (user' # None /\ user' # user)
            => \/ /\ user' = customUser
                  /\ demo_user' # None
               \/ /\ session' # None
                  /\ session'[1].email_confirmed_at
                  /\ user' = sessionUser(session')]_vars

\* Supabase holds an unconfirmed session and the user is the one of the item
C27_Witness ==
    /\ session = Some([email_confirmed_at |-> FALSE])
    /\ user = customUser
    /\ demo_user # None
    /\ initAuthAt = "done"

C29_LeavesLoading ==
    confirmEmailAt \in {"done", "redirect"} => status \in {"success", "error"}

\* the ids of a list are all different
NoDuplicates(ids) ==
    \A i, j \in 1..Len(ids) : ids[i] = ids[j] => i = j

\* C30: handlePropertySelect keeps at most 4 ids selected and none twice; the
\* toggle of a selected id removes it and keeps the others; the toggle of an
\* id that is not selected while 4 are selected leaves the list as it is.
C30_AtMostFourSelected ==
    [][(propertyId' # propertyId \/ selectedProperties' # selectedProperties)
           => LET id == propertyId'[1]
              IN  /\ Len(selectedProperties') <= 4
                  /\ NoDuplicates(selectedProperties')
                  /\ includes(selectedProperties, id)
                        => /\ ~includes(selectedProperties', id)
                           /\ Len(selectedProperties') = Len(selectedProperties) - 1
                           /\ \A other \in {selectedProperties[i] : i \in 1..Len(selectedProperties)} \ {id} :
                                 includes(selectedProperties', other)
                  /\ (~includes(selectedProperties, id) /\ Len(selectedProperties) = 4)
                        => selectedProperties' = selectedProperties
                  /\ (~includes(selectedProperties, id) /\ Len(selectedProperties) < 4)
                        => selectedProperties' = Append(selectedProperties, id)]_vars

\* four are selected and the last toggle was of a fifth
C30_Witness ==
    /\ Len(selectedProperties) = 4
    /\ propertyId # None
    /\ ~includes(selectedProperties, propertyId[1])

====
